---- MODULE Spec2Model ----
(***************************************************************************)
(* A model of myst_nb/sphinx_.py: the per-document metadata store          *)
(* (NbMetadataCollector), the cell render configuration lookup             *)
(* (SphinxNbRenderer.get_cell_render_config), the code cell tree builder   *)
(* (render_nb_cell_code, render_nb_cell_code_outputs) and the mime bundle  *)
(* post-transform (SelectMimeType.run).                                    *)
(*                                                                         *)
(* Python values are modelled by strings: "True"/"False" for booleans,     *)
(* "absent" for a missing dictionary key or None, "unset" for an attribute *)
(* that was never assigned.                                                *)
(***************************************************************************)
EXTENDS Integers, Sequences, FiniteSets, TLC

\* ------------------------------------------------------------------------
\* Bounds of the model
\* ------------------------------------------------------------------------

\* collector calls made on a store in one behaviour
MaxOps == 1
\* nodes the element renderer returns for one output or mime type
MaxNodes == 2
\* mime types in the data of one output
MaxMimes == 2
\* runs of SelectMimeType over one document tree
MaxRuns == 2
\* code cells of a notebook
MaxCells == 2

\* ------------------------------------------------------------------------
\* Python helpers
\* ------------------------------------------------------------------------

Absent == "absent"

Min(S) == CHOOSE x \in S : \A y \in S : x <= y

\* ========================================================================
\* NbMetadataCollector: the per-document metadata store
\* ========================================================================

\* build environments: the main process and the parallel read workers
Workers == {"w1", "w2"}
AllEnvs == {"main"} \cup Workers
Docs == {"d1", "d2"}
ExecVals == {"r1", "r2"}
GlueVals == {"g1"}
JsKeys == {"k1"}
UriVals == {"u1"}
DocDataKeys == {"exec_data", "glue"}

\* the dict objects are identified by 1, 2, ...; 0 stands for "no such key"
ObjIdsFor(envs) == 1 .. (Cardinality(envs) * Cardinality(Docs))

\* a per-document dict `{}`; js_files with every key absent is "no js_files"
EmptyEntry ==
    [exec_data |-> Absent, glue |-> Absent, js_files |-> [k \in JsKeys |-> Absent]]

VARIABLES
    has_nb_metadata,   \* [Envs -> BOOLEAN]: hasattr(env, "nb_metadata")
    nb_metadata,       \* [Envs -> [Docs -> ObjIds \cup {0}]]: env.nb_metadata
    dicts,             \* [ObjIds -> entry]: the dict objects nb_metadata refers to
    nb_new_exec_data,  \* [Envs -> {"unset", "True", "False"}]
    call,              \* the collector call executed last, and its result
    nops,              \* number of collector calls made so far
    merged,            \* the workers whose results were merged into main
    start,             \* the stores when the merging of a parallel read began
    targets,           \* [worker -> the documents it read]
    nb_config,         \* the notebook level configuration
    notebook,          \* the cells of the notebook being parsed
    rendered,          \* number of cells rendered so far
    doctree,           \* the document tree
    bname,             \* the name of the builder
    priority_list,     \* get_mime_priority(bname, overrides)
    pc,                \* "parse", "select" (SelectMimeType.run is looping), "done"
    todo,              \* the mime bundles SelectMimeType.run has yet to handle
    last,              \* the mime bundle handled last, the tree and log before
    log,               \* the warnings of the current run of SelectMimeType
    runs,              \* number of runs of SelectMimeType
    lookup,            \* the arguments of a call of get_cell_render_config
    answer,            \* what the call returned or raised
    mystnb_config,     \* env.mystnb_config, the configuration of the build
    overrides,         \* notebook.metadata[nb_config.metadata_key], if any
    parse_log          \* the warnings Parser.parse logged for the document

collector_vars ==
    <<has_nb_metadata, nb_metadata, dicts, nb_new_exec_data, call, nops, merged,
      start, targets>>

render_vars ==
    <<nb_config, notebook, rendered, doctree, bname, priority_list, pc, todo,
      last, log, runs>>

config_vars == <<lookup, answer>>

parse_vars == <<mystnb_config, overrides, parse_log>>

\* the store as one value, for the pure operators below
Store ==
    [has |-> has_nb_metadata, meta |-> nb_metadata, objs |-> dicts,
     flag |-> nb_new_exec_data]

\* the environments of a store, and its dict objects
Envs(s) == DOMAIN s.has
ObjIds(s) == DOMAIN s.objs

\* environments as constructed: no nb_metadata, no nb_new_exec_data
InitStore(envs) ==
    [has |-> [e \in envs |-> FALSE],
     meta |-> [e \in envs |-> [d \in Docs |-> 0]],
     objs |-> [o \in ObjIdsFor(envs) |-> EmptyEntry],
     flag |-> [e \in envs |-> "unset"]]

Referenced(s) == {s.meta[e][d] : e \in Envs(s), d \in Docs} \ {0}

\* a dict object no environment refers to
FreshObj(s) == Min(ObjIds(s) \ Referenced(s))

\* objects without a reference are garbage: forget their contents
Collect(s) ==
    [s EXCEPT !.objs = [o \in ObjIds(s) |->
        IF o \in Referenced(s) THEN s.objs[o] ELSE EmptyEntry]]

\* if not hasattr(env, "nb_metadata"): env.nb_metadata = defaultdict(dict)
EnsureNbMetadata(s, env) == [s EXCEPT !.has[env] = TRUE]

\* defaultdict.__getitem__ / setdefault(docname, {}): a missing key is
\* inserted with a new empty dict
DefaultGet(s, env, docname) ==
    IF s.meta[env][docname] # 0 THEN s
    ELSE LET o == FreshObj(s) IN
         [s EXCEPT !.meta[env][docname] = o, !.objs[o] = EmptyEntry]

\* the dict stored for docname, {} when there is none
DocEntry(s, env, docname) ==
    IF s.meta[env][docname] = 0 THEN EmptyEntry
    ELSE s.objs[s.meta[env][docname]]

\* the keys of the dict stored for docname
StoredKeys(s, env, docname) ==
    LET en == DocEntry(s, env, docname) IN
    {k \in DocDataKeys : en[k] # Absent}
    \cup (IF \E k \in JsKeys : en.js_files[k] # Absent THEN {"js_files"} ELSE {})

set_doc_data(s, env, docname, key, value) ==
    LET s1 == DefaultGet(EnsureNbMetadata(s, env), env, docname)
        o == s1.meta[env][docname]
    IN [s1 EXCEPT !.objs[o][key] = value]

get_doc_data(s, env) == EnsureNbMetadata(s, env)

\* the flag is taken down
forget_exec_update(s, env) == [s EXCEPT !.flag[env] = "False"]

note_exec_update(s, env) == [s EXCEPT !.flag[env] = "True"]

set_exec_data(s, env, docname, value) ==
    note_exec_update(set_doc_data(s, env, docname, "exec_data", value), env)

\* the store after get_exec_data: indexing the defaultdict inserts the key
get_exec_data(s, env, docname) == DefaultGet(get_doc_data(s, env), env, docname)

\* ... and its result: .get("exec_data"), None when there is none
get_exec_data_result(s, env, docname) ==
    DocEntry(get_exec_data(s, env, docname), env, docname).exec_data

get_outdated_docs(s, env) == [s EXCEPT !.flag[env] = "False"]

\* getattr(env, "nb_new_exec_data", False)
new_exec_data(s, env) == s.flag[env] = "True"

add_js_file(s, env, docname, key, uri) ==
    LET s1 == DefaultGet(EnsureNbMetadata(s, env), env, docname)
        o == s1.meta[env][docname]
    IN [s1 EXCEPT !.objs[o].js_files[key] = uri]

get_js_files(s, env, docname) == DefaultGet(get_doc_data(s, env), env, docname)

get_js_files_result(s, env, docname) ==
    DocEntry(get_js_files(s, env, docname), env, docname).js_files

\* nothing is popped
keep_doc(s, env, docname) == EnsureNbMetadata(s, env)

clear_doc(s, env, docname) ==
    [EnsureNbMetadata(s, env) EXCEPT !.meta[env][docname] = 0]

\* for docname in docnames: env.nb_metadata[docname] = other_metadata[docname]
\* other_metadata is other.nb_metadata, or a temporary defaultdict when other
\* has no such attribute; either way indexing it inserts a missing key, and
\* the assignment shares the dict object between the two environments
RECURSIVE MergeLoop(_, _, _, _)
MergeLoop(s, env, docnames, other) ==
    IF docnames = {} THEN s
    ELSE LET docname == CHOOSE d \in docnames : TRUE
             s1 == IF s.has[other] THEN DefaultGet(s, other, docname) ELSE s
             o == IF s.has[other] THEN s1.meta[other][docname] ELSE FreshObj(s1)
             s2 == [s1 EXCEPT !.meta[env][docname] = o,
                              !.objs[o] = IF s.has[other] THEN @ ELSE EmptyEntry]
         IN MergeLoop(s2, env, docnames \ {docname}, other)

\* other.nb_new_exec_data raises AttributeError when it was never assigned
MergeRaises(s, other) == s.flag[other] = "unset"

\* every document is taken over, not only docnames
merge_all_docs(s, env, docnames, other) ==
    LET s1 == MergeLoop(EnsureNbMetadata(s, env), env, Docs, other)
    IN IF s.flag[other] = "True" THEN [s1 EXCEPT !.flag[env] = "True"] ELSE s1

\* the flag of other is assigned, not or-ed
merge_assigning_flag(s, env, docnames, other) ==
    LET s1 == MergeLoop(EnsureNbMetadata(s, env), env, docnames, other)
    IN [s1 EXCEPT !.flag[env] = s.flag[other]]

merge_other(s, env, docnames, other) ==
    LET s1 == MergeLoop(EnsureNbMetadata(s, env), env, docnames, other)
    IN IF s.flag[other] = "True" THEN [s1 EXCEPT !.flag[env] = "True"] ELSE s1


\* ========================================================================
\* SphinxNbRenderer.get_cell_render_config
\* ========================================================================

\* Python truthiness of a configuration value
Truthy(v) == v \notin {"False", "None", "absent", ""}

\* the render options looked up in this model; "figure" is no field of the
\* cells level configuration
ConfigFields == {"remove_code_source", "remove_code_outputs", "number_source_lines"}
RenderKeys == ConfigFields \cup {"figure"}

\* cell metadata: the cell's tags and, under the key config.cell_render_key,
\* the cell level render options (has_render: that key is in the metadata)
CellMetadata(tags, has_render, render) ==
    [tags |-> tags, has_render |-> has_render, render |-> render]

NoRender == [k \in RenderKeys |-> Absent]

Returned(v) == [raised |-> "", value |-> v]
Raised(exc) == [raised |-> exc, value |-> Absent]

\* the configuration is asked first
get_config_first(config, cell_metadata, key, nb_key, has_nb_key) ==
    IF has_nb_key
    THEN Returned(config[IF nb_key # "None" THEN nb_key ELSE key])
    ELSE IF ~cell_metadata.has_render \/ cell_metadata.render[key] = Absent
    THEN Raised("KeyError")
    ELSE Returned(cell_metadata.render[key])

get_cell_render_config(config, cell_metadata, key, nb_key, has_nb_key) ==
    IF \/ ~cell_metadata.has_render
       \/ cell_metadata.render[key] = Absent
    THEN IF ~has_nb_key THEN Raised("KeyError")
         ELSE Returned(config[IF nb_key # "None" THEN nb_key ELSE key])
    ELSE Returned(cell_metadata.render[key])

\* ========================================================================
\* docutils document trees
\* ========================================================================

\* A tree is a sequence of node objects; a node is known by its position in
\* it, node 1 is the document. parent = 0: the node has no parent.
\* origin: the cell, output and mime type a node was rendered for.
\* (inner: the mime type of the pasted bundle's container it sits in, if any)
Origin(cell, output, mime, k) ==
    [cell |-> cell, output |-> output, mime |-> mime, k |-> k, inner |-> ""]

Node(tag, nb_element, classes, mime_type, origin) ==
    [tag |-> tag, nb_element |-> nb_element, classes |-> classes,
     mime_type |-> mime_type, origin |-> origin, parent |-> 0, children |-> <<>>]

EmptyDocument == <<Node("document", "", {}, "", Origin(0, 0, "", 0))>>

\* the renderer's state: the tree and the node new nodes are added to
Rendering(tree, current_node) == [tree |-> tree, current_node |-> current_node]

\* a new node object, not yet in any parent; its identity is Len(r.tree) + 1
Create(r, node) == [r EXCEPT !.tree = Append(@, node)]
Created(r) == Len(r.tree)

\* the child is added first
PrependChild(tree, parent, child) ==
    [tree EXCEPT ![parent].children = <<child>> \o @, ![child].parent = parent]

\* Element.append: the child is added last and its parent is set
AppendChild(tree, parent, child) ==
    [tree EXCEPT ![parent].children = Append(@, child), ![child].parent = parent]

\* self.current_node.append(node)
AppendToCurrent(r, child) ==
    [r EXCEPT !.tree = AppendChild(@, r.current_node, child)]

\* position of the first occurrence of x in seq, 0 when there is none
IndexOf(seq, x) ==
    IF \E i \in 1 .. Len(seq) : seq[i] = x
    THEN Min({i \in 1 .. Len(seq) : seq[i] = x})
    ELSE 0

RemoveAt(seq, i) == SubSeq(seq, 1, i - 1) \o SubSeq(seq, i + 1, Len(seq))

\* Element.remove: the first occurrence leaves the children; the removed
\* node keeps its parent attribute
RemoveChild(tree, parent, child) ==
    [tree EXCEPT ![parent].children = RemoveAt(@, IndexOf(@, child))]

RECURSIVE SetParents(_, _, _)
SetParents(tree, parent, new) ==
    IF new = <<>> THEN tree
    ELSE SetParents([tree EXCEPT ![Head(new)].parent = parent], parent, Tail(new))

\* Node.replace_self(new) with a list: parent[index:index+1] = new, and every
\* node of new gets the parent as its parent
ReplaceSelf(tree, node, new) ==
    LET parent == tree[node].parent
        index == IndexOf(tree[parent].children, node)
        spliced == SubSeq(tree[parent].children, 1, index - 1) \o new
                   \o SubSeq(tree[parent].children, index + 1,
                             Len(tree[parent].children))
    IN SetParents([tree EXCEPT ![parent].children = spliced], parent, new)

\* findall: the node and its descendants in document order
RECURSIVE findall(_, _)
RECURSIVE findall_children(_, _)
findall(tree, node) == <<node>> \o findall_children(tree, tree[node].children)
findall_children(tree, children) ==
    IF children = <<>> THEN <<>>
    ELSE findall(tree, Head(children)) \o findall_children(tree, Tail(children))

\* ========================================================================
\* SphinxNbRenderer: the tree builder
\* ========================================================================

MimeTypes == {"text/plain", "text/html", "image/png"}

\* a cells output; content is what the element renderer returns for a
\* stream or error output, data the (mime_type, content) pairs of a
\* display_data or execute_result output in insertion order
Output(output_type, name, content, data) ==
    [output_type |-> output_type, name |-> name, content |-> content, data |-> data]

CodeCell(metadata, outputs) ==
    [cell_type |-> "code", metadata |-> metadata, outputs |-> outputs]

\* the token notebook_to_tokens makes of cell number index
CellToken(cells, index) ==
    [index |-> index, metadata |-> cells[index].metadata]

\* tag.replace(' ', '_') prefixed with "tag_"
TagClass(tag) ==
    CASE tag = "remove_input" -> "tag_remove_input"
      [] tag = "remove-input" -> "tag_remove-input"
      [] tag = "remove_output" -> "tag_remove_output"
      [] tag = "remove-output" -> "tag_remove-output"
      [] tag = "hide-input" -> "tag_hide-input"
      [] tag = "hide input" -> "tag_hide_input"
      [] OTHER -> "tag_other"

\* The element renderer returns a list of nodes. An item of a content is a
\* plain node (Plain), or a mime bundle pasted into the rendered text, as the
\* glue roles do: Pasted(parts), with one container per part holding
\* part.n nodes.
Plain == [pasted |-> FALSE, parts |-> <<>>]
Pasted(parts) == [pasted |-> TRUE, parts |-> parts]
Part(mime_type, n) == [mime_type |-> mime_type, n |-> n]

RECURSIVE PastedContainers(_, _, _, _)
PastedContainers(r, bundle, parts, origin) ==
    IF parts = <<>> THEN r
    ELSE LET r1 == Create(r, Node("container", "", {}, Head(parts).mime_type, origin))
             container == Created(r1)
             r2 == IF Head(parts).n = 0 THEN r1
                   ELSE Create(r1, Node("rendered", "", {}, "",
                                   [origin EXCEPT !.inner = Head(parts).mime_type]))
             t1 == IF Head(parts).n = 0 THEN r2.tree
                   ELSE AppendChild(r2.tree, container, Created(r2))
             t2 == AppendChild(t1, bundle, container)
         IN PastedContainers([r2 EXCEPT !.tree = t2], bundle, Tail(parts), origin)

\* self.current_node.extend(_nodes)
RECURSIVE ExtendCurrent(_, _, _, _)
ExtendCurrent(r, content, origin, k) ==
    IF content = <<>> THEN r
    ELSE LET item == Head(content)
             o == [origin EXCEPT !.k = k]
             new == Len(r.tree) + 1
             r1 == IF ~item.pasted
                   THEN Create(r, Node("rendered", "", {}, "", o))
                   ELSE PastedContainers(
                            Create(r, Node("container", "mime_bundle", {}, "", o)),
                            new, item.parts, o)
         IN ExtendCurrent(AppendToCurrent(r1, new), Tail(content), origin, k + 1)

\* for mime_type, data in output["data"].items(): a mime container per mime
\* type, kept only if render_mime_type returned nodes
RECURSIVE MimeLoop(_, _, _, _)
MimeLoop(r, mime_bundle, data, origin) ==
    IF data = <<>> THEN r
    ELSE LET mime_type == Head(data).mime_type
             r1 == Create(r, Node("container", "", {}, mime_type,
                                  [origin EXCEPT !.mime = mime_type]))
             mime_container == Created(r1)
             r2 == ExtendCurrent([r1 EXCEPT !.current_node = mime_container],
                                 Head(data).content,
                                 [origin EXCEPT !.mime = mime_type], 1)
             r3 == [r2 EXCEPT !.current_node = mime_bundle]
             r4 == IF r3.tree[mime_container].children # <<>>
                   THEN AppendToCurrent(r3, mime_container)
                   ELSE r3
         IN MimeLoop(r4, mime_bundle, Tail(data), origin)

\* create_figure_context: with figure options the nodes of the block go into
\* a new figure node appended to the current node
create_figure_context(r, figure_options, origin) ==
    IF figure_options = Absent THEN r
    ELSE LET r1 == Create(r, Node("figure", "", {}, "", origin))
         IN [AppendToCurrent(r1, Created(r1)) EXCEPT !.current_node = Created(r1)]

\* the display_data / execute_result branch
RenderMimeBundle(r, metadata, output, origin, config) ==
    LET found == get_cell_render_config(config, metadata, "figure", "None", FALSE)
        figure_options == IF found.raised = "KeyError" THEN Absent ELSE found.value
        r1 == create_figure_context(r, figure_options, origin)
        r2 == Create(r1, Node("container", "mime_bundle", {}, "", origin))
        mime_bundle == Created(r2)
        r3 == MimeLoop([r2 EXCEPT !.current_node = mime_bundle], mime_bundle,
                       output.data, origin)
        r4 == [r3 EXCEPT !.current_node = r1.current_node]
        r5 == IF r4.tree[mime_bundle].children # <<>>
              THEN AppendToCurrent(r4, mime_bundle)
              ELSE r4
    IN [r5 EXCEPT !.current_node = r.current_node]

\* a stream of another name gets a warning node too
RenderOutputWarning(r, metadata, output, origin, config) ==
    IF output.output_type = "stream" /\ output.name \in {"stdout", "stderr"}
    THEN ExtendCurrent(r, output.content, [origin EXCEPT !.mime = output.name], 1)
    ELSE IF output.output_type = "error"
    THEN ExtendCurrent(r, output.content, [origin EXCEPT !.mime = "error"], 1)
    ELSE IF output.output_type \in {"display_data", "execute_result"}
    THEN RenderMimeBundle(r, metadata, output, origin, config)
    ELSE LET r1 == Create(r, Node("system_message", "", {"output_type"}, "",
                                  origin))
         IN AppendToCurrent(r1, Created(r1))

RenderOutput(r, metadata, output, origin, config) ==
    IF output.output_type = "stream"
    THEN IF output.name \in {"stdout", "stderr"}
         THEN ExtendCurrent(r, output.content, [origin EXCEPT !.mime = output.name], 1)
         ELSE r
    ELSE IF output.output_type = "error"
    THEN ExtendCurrent(r, output.content, [origin EXCEPT !.mime = "error"], 1)
    ELSE IF output.output_type \in {"display_data", "execute_result"}
    THEN RenderMimeBundle(r, metadata, output, origin, config)
    ELSE \* create_warning(..., append_to=self.current_node, subtype="output_type")
         LET r1 == Create(r, Node("system_message", "", {"output_type"}, "",
                                  origin))
         IN AppendToCurrent(r1, Created(r1))

\* the outputs are rendered from the last to the first
RECURSIVE OutputsBackwards(_, _, _, _, _)
OutputsBackwards(r, token, outputs, output_index, config) ==
    IF output_index > Len(outputs) THEN r
    ELSE RenderOutput(
             OutputsBackwards(r, token, outputs, output_index + 1, config),
             token.metadata, outputs[output_index],
             Origin(token.index, output_index, "", 0), config)

RECURSIVE OutputsLoop(_, _, _, _, _)
OutputsLoop(r, token, outputs, output_index, config) ==
    IF output_index > Len(outputs) THEN r
    ELSE OutputsLoop(
             RenderOutput(r, token.metadata, outputs[output_index],
                          Origin(token.index, output_index, "", 0), config),
             token, outputs, output_index + 1, config)

render_nb_cell_code_outputs(r, token, cells, config) ==
    OutputsLoop(r, token, cells[token.index].outputs, 1, config)

render_nb_cell_code_source(r, token) ==
    LET r1 == Create(r, Node("literal_block", "", {}, "", Origin(token.index, 0, "", 0)))
    IN AppendToCurrent(r1, Created(r1))

\* a hide-input tag counts as a removal of the input
RemoveInputOrHidden(token, config) ==
    \/ Truthy(get_cell_render_config(config, token.metadata,
                                     "remove_code_source", "None", TRUE).value)
    \/ token.metadata.tags \cap {"remove_input", "remove-input", "hide-input"} # {}

RemoveInput(token, config) ==
    \/ Truthy(get_cell_render_config(config, token.metadata,
                                     "remove_code_source", "None", TRUE).value)
    \/ "remove_input" \in token.metadata.tags
    \/ "remove-input" \in token.metadata.tags

\* the configuration alone decides
RemoveOutputByConfig(token, config) ==
    Truthy(get_cell_render_config(config, token.metadata,
                                  "remove_code_outputs", "None", TRUE).value)

RemoveOutput(token, config) ==
    \/ Truthy(get_cell_render_config(config, token.metadata,
                                     "remove_code_outputs", "None", TRUE).value)
    \/ "remove_output" \in token.metadata.tags
    \/ "remove-output" \in token.metadata.tags

render_nb_cell_code(r, token, cells, config) ==
    LET remove_input == RemoveInput(token, config)
        remove_output == RemoveOutput(token, config)
        origin == Origin(token.index, 0, "", 0)
        classes == {"cell"} \cup {TagClass(tag) : tag \in token.metadata.tags}
        r1 == Create(r, Node("container", "cell_code", classes, "", origin))
        cell_container == Created(r1)
        r2 == [AppendToCurrent(r1, cell_container) EXCEPT !.current_node = cell_container]
        r3 == IF ~remove_input
              THEN LET a == Create(r2, Node("container", "cell_code_source",
                                            {"cell_input"}, "", origin))
                       cell_input == Created(a)
                       b == [AppendToCurrent(a, cell_input) EXCEPT
                                 !.current_node = cell_input]
                   IN [render_nb_cell_code_source(b, token) EXCEPT
                           !.current_node = cell_container]
              ELSE r2
        has_outputs == cells[token.index].outputs # <<>>
        r4 == IF ~remove_output /\ has_outputs
              THEN LET a == Create(r3, Node("container", "cell_code_output",
                                            {"cell_output"}, "", origin))
                       cell_output == Created(a)
                       b == [AppendToCurrent(a, cell_output) EXCEPT
                                 !.current_node = cell_output]
                   IN [render_nb_cell_code_outputs(b, token, cells, config)
                           EXCEPT !.current_node = cell_container]
              ELSE r3
    IN IF remove_input /\ remove_output THEN r
       ELSE [r4 EXCEPT !.current_node = r.current_node]

\* ========================================================================
\* SelectMimeType: the post-transform
\* ========================================================================

IsMimeBundle(tree, node) ==
    tree[node].tag = "container" /\ tree[node].nb_element = "mime_bundle"

\* a list of the first match only
FirstBundleOf(tree) ==
    LET all == SelectSeq(findall(tree, 1), LAMBDA node : IsMimeBundle(tree, node))
    IN IF all = <<>> THEN <<>> ELSE <<Head(all)>>

\* findall(self.document)(condition), as a list
BundlesOf(tree) ==
    SelectSeq(findall(tree, 1), LAMBDA node : IsMimeBundle(tree, node))

\* [node["mime_type"] for node in node.children]
ChildMimeTypes(tree, node) ==
    [i \in 1 .. Len(tree[node].children) |-> tree[tree[node].children[i]].mime_type]

\* the first child whose mime type is in the priority list, 0 for None
SelectFirstChild(priorities, mime_types) ==
    LET hits == {c \in 1 .. Len(mime_types) :
                    \E i \in 1 .. Len(priorities) : priorities[i] = mime_types[c]}
    IN IF hits = {} THEN 0 ELSE Min(hits)

\* the loop over the priority list: the position among the children of the
\* first priority entry that is a child's mime type, 0 for None
RECURSIVE SelectIndex(_, _)
SelectIndex(priorities, mime_types) ==
    IF priorities = <<>> THEN 0
    ELSE IF IndexOf(mime_types, Head(priorities)) # 0
         THEN IndexOf(mime_types, Head(priorities))
         ELSE SelectIndex(Tail(priorities), mime_types)

\* a warning that names the first mime type only
WarningOfFirstType(builder, mime_types, node) ==
    [subtype |-> "mime_priority", bname |-> builder,
     mime_types |-> <<Head(mime_types)>>, location |-> node]

\* the warning SPHINX_LOGGER.warning logs: the builder, the mime types of
\* the bundle and the bundle as location
MimePriorityWarning(builder, mime_types, node) ==
    [subtype |-> "mime_priority", bname |-> builder, mime_types |-> mime_types,
     location |-> node]

\* a loop body that puts the children of every mime container in the
\* bundle's place
RECURSIVE Grandchildren(_, _)
Grandchildren(tree, children) ==
    IF children = <<>> THEN <<>>
    ELSE tree[Head(children)].children \o Grandchildren(tree, Tail(children))

SelectAll(t, node, priorities, builder) ==
    LET all == Grandchildren(t.tree, t.tree[node].children)
    IN IF all = <<>>
       THEN [t EXCEPT !.tree = RemoveChild(@, t.tree[node].parent, node)]
       ELSE [t EXCEPT !.tree = ReplaceSelf(@, node, all)]

\* a loop body that passes over the children without content when it
\* selects by priority
SelectWithFallback(t, node, priorities, builder) ==
    LET mime_types == ChildMimeTypes(t.tree, node)
        parent == t.tree[node].parent
        filled == {i \in 1 .. Len(priorities) :
                      \E c \in 1 .. Len(mime_types) :
                          /\ mime_types[c] = priorities[i]
                          /\ t.tree[t.tree[node].children[c]].children # <<>>}
    IN IF filled = {}
       THEN [t EXCEPT !.tree = RemoveChild(@, parent, node)]
       ELSE LET c == CHOOSE c \in 1 .. Len(mime_types) :
                         mime_types[c] = priorities[Min(filled)]
            IN [t EXCEPT !.tree =
                   ReplaceSelf(@, node, t.tree[t.tree[node].children[c]].children)]

\* the body of the loop for one mime bundle; t: the tree and the log
SelectOne(t, node, priorities, builder) ==
    LET mime_types == ChildMimeTypes(t.tree, node)
        index == SelectIndex(priorities, mime_types)
        parent == t.tree[node].parent
    IN IF mime_types = <<>>
       THEN [t EXCEPT !.tree = RemoveChild(@, parent, node)]
       ELSE IF index = 0
       THEN [tree |-> RemoveChild(t.tree, parent, node),
             log |-> Append(t.log, MimePriorityWarning(builder, mime_types, node))]
       ELSE IF t.tree[t.tree[node].children[index]].children = <<>>
       THEN [t EXCEPT !.tree = RemoveChild(@, parent, node)]
       ELSE [t EXCEPT !.tree =
                ReplaceSelf(@, node, t.tree[t.tree[node].children[index]].children)]

RECURSIVE SelectLoop(_, _, _, _)
SelectLoop(t, bundles, priorities, builder) ==
    IF bundles = <<>> THEN t
    ELSE SelectLoop(SelectOne(t, Head(bundles), priorities, builder),
                    Tail(bundles), priorities, builder)

\* SelectMimeType.run on a tree: the tree it leaves and the warnings it logs
SelectMimeType_run(tree, priorities, builder) ==
    SelectLoop([tree |-> tree, log |-> <<>>], BundlesOf(tree), priorities, builder)

\* ------------------------------------------------------------------------
\* parsing a notebook and resolving its tree, as actions
\* ------------------------------------------------------------------------

NoLast == [node |-> 0, before |-> <<>>, log |-> <<>>]

\* Parser.parse renders the tokens of the cells in order (mdit_renderer.render)
RenderNbCellCode ==
    /\ pc = "parse"
    /\ rendered < Len(notebook)
    /\ doctree' = render_nb_cell_code(Rendering(doctree, 1),
                                      CellToken(notebook, rendered + 1),
                                      notebook, nb_config).tree
    /\ rendered' = rendered + 1
    /\ UNCHANGED <<nb_config, notebook, bname, priority_list, pc, todo, last, log, runs>>
    /\ UNCHANGED collector_vars
    /\ UNCHANGED config_vars
    /\ UNCHANGED parse_vars

\* SelectMimeType.run up to its loop: the priority list and the mime bundles
RunStart ==
    /\ \/ pc = "parse" /\ rendered = Len(notebook)
       \/ pc = "done" /\ runs < MaxRuns
    /\ pc' = "select"
    /\ todo' = BundlesOf(doctree)
    /\ log' = <<>>
    /\ last' = NoLast
    /\ runs' = runs + 1
    /\ UNCHANGED <<nb_config, notebook, rendered, doctree, bname, priority_list>>
    /\ UNCHANGED collector_vars
    /\ UNCHANGED config_vars
    /\ UNCHANGED parse_vars

\* one iteration of the loop
RunStep ==
    /\ pc = "select"
    /\ todo # <<>>
    /\ LET t == SelectOne([tree |-> doctree, log |-> log], Head(todo),
                          priority_list, bname)
       IN /\ doctree' = t.tree
          /\ log' = t.log
    /\ last' = [node |-> Head(todo), before |-> doctree, log |-> log]
    /\ todo' = Tail(todo)
    /\ UNCHANGED <<nb_config, notebook, rendered, bname, priority_list, pc, runs>>
    /\ UNCHANGED collector_vars
    /\ UNCHANGED config_vars
    /\ UNCHANGED parse_vars

\* the loop is over
RunEnd ==
    /\ pc = "select"
    /\ todo = <<>>
    /\ pc' = "done"
    /\ UNCHANGED <<nb_config, notebook, rendered, doctree, bname, priority_list,
                   todo, last, log, runs>>
    /\ UNCHANGED collector_vars
    /\ UNCHANGED config_vars
    /\ UNCHANGED parse_vars

NextRender ==
    \/ RenderNbCellCode
    \/ RunStart
    \/ RunStep
    \/ RunEnd

\* ------------------------------------------------------------------------
\* notebooks
\* ------------------------------------------------------------------------

Builders == {"html", "latex"}

\* sequences without repetition over a set
RECURSIVE Arrangements(_, _)
Arrangements(S, n) ==
    IF n = 0 THEN {<<>>}
    ELSE LET shorter == Arrangements(S, n - 1) IN
         shorter \cup
         {Append(q, x) : q \in {q \in shorter : Len(q) = n - 1}, x \in S}

NoRepeat(seq) == \A i, j \in 1 .. Len(seq) : i # j => seq[i] # seq[j]

Distinct(S, n) == {q \in Arrangements(S, n) : NoRepeat(q)}

\* what the element renderer returns: up to MaxNodes plain nodes, or one
\* pasted mime bundle
PlainContents == {[i \in 1 .. n |-> Plain] : n \in 0 .. MaxNodes}
PastedContents ==
    {<<Pasted(<<>>)>>,
     <<Pasted(<<Part("text/plain", 1)>>)>>,
     <<Pasted(<<Part("image/png", 0), Part("text/plain", 1)>>)>>}
Contents == PlainContents \cup PastedContents

\* the data of display_data outputs: up to MaxMimes mime types
DataChoices ==
    UNION {[1 .. n -> [mime_type : MimeTypes, content : Contents]] : n \in 0 .. MaxMimes}

\* the keys of a dict are distinct; at most one mime type gets more than a
\* single plain node
Datas ==
    {d \in DataChoices :
        /\ NoRepeat([i \in 1 .. Len(d) |-> d[i].mime_type])
        /\ Cardinality({i \in 1 .. Len(d) : d[i].content \notin {<<>>, <<Plain>>}}) <= 1}

DefaultConfig == [k \in ConfigFields |-> "False"]

NoTags == {}

\* notebooks of one code cell with one display_data output
NotebooksMime ==
    {<<CodeCell(CellMetadata(NoTags, has_figure,
                             [NoRender EXCEPT !["figure"] =
                                 IF has_figure THEN "options" ELSE Absent]),
                <<Output("display_data", "", <<>>, data)>>)>> :
        has_figure \in BOOLEAN, data \in Datas}

\* ------------------------------------------------------------------------
\* Parser.parse: the configuration of the notebook
\* ------------------------------------------------------------------------

\* the fields of the configuration a notebook can override
ParseFields == ConfigFields \cup {"output_folder"}

\* the values under the metadata key: for every field none, a value the
\* field takes, or one it does not take
OverrideValues == {Absent, "True", "bad"}

NoOverrides == [present |-> FALSE, fields |-> [k \in ParseFields |-> Absent]]

\* overrides.pop("output_folder", None)
PopOutputFolder(fields) == [fields EXCEPT !["output_folder"] = Absent]

\* nb_config.copy(**overrides): a new configuration with the fields given,
\* an exception when a value is not valid for its field
config_copy(config, fields) ==
    IF \E k \in ParseFields : fields[k] = "bad"
    THEN Raised("ValidationError")
    ELSE Returned([k \in ParseFields |->
                      IF fields[k] # Absent THEN fields[k] ELSE config[k]])

ConfigWarning == [subtype |-> "config"]

\* the valid overrides are applied although the copy failed
update_partially(config, given, logged) ==
    IF ~given.present THEN [nb_config |-> config, log |-> logged]
    ELSE LET fields == PopOutputFolder(given.fields)
             copied == config_copy(config, fields)
         IN IF copied.raised # ""
            THEN [nb_config |-> [k \in ParseFields |->
                                    IF fields[k] \notin {Absent, "bad"}
                                    THEN fields[k] ELSE config[k]],
                  log |-> Append(logged, ConfigWarning)]
            ELSE [nb_config |-> copied.value, log |-> logged]

\* "Update mystnb configuration with notebook level metadata": the
\* configuration parse goes on with, and the warnings logged
update_configuration(config, given, logged) ==
    IF ~given.present THEN [nb_config |-> config, log |-> logged]
    ELSE LET fields == PopOutputFolder(given.fields)
             copied == config_copy(config, fields)
         IN IF copied.raised # ""
            THEN [nb_config |-> config, log |-> Append(logged, ConfigWarning)]
            ELSE [nb_config |-> copied.value, log |-> logged]

NoLookup ==
    [cell_metadata |-> CellMetadata(NoTags, FALSE, NoRender), key |-> "figure",
     nb_key |-> "None", has_nb_key |-> FALSE]

NoAnswer == [raised |-> "", value |-> "not called"]

InitIdleConfig ==
    /\ lookup = NoLookup
    /\ answer = NoAnswer

InitIdleParse ==
    /\ mystnb_config = DefaultConfig
    /\ overrides = NoOverrides
    /\ parse_log = <<>>

InitIdleRender ==
    /\ nb_config = DefaultConfig
    /\ notebook = <<>>
    /\ rendered = 0
    /\ doctree = EmptyDocument
    /\ bname = "html"
    /\ priority_list = <<>>
    /\ pc = "parse"
    /\ todo = <<>>
    /\ last = NoLast
    /\ log = <<>>
    /\ runs = 0

\* ------------------------------------------------------------------------
\* the collector's calls as actions
\* ------------------------------------------------------------------------

NoCall ==
    [op |-> "none", env |-> "main", doc |-> "d1", key |-> "", value |-> "",
     docnames |-> {}, other |-> "main", raised |-> FALSE, ret |-> Absent,
     dropped |-> FALSE]

\* dropped: the call took a key away from one of env's documents
Called(op, env, doc, key, value, docnames, other, raised, result, after) ==
    [op |-> op, env |-> env, doc |-> doc, key |-> key, value |-> value,
     docnames |-> docnames, other |-> other, raised |-> raised, ret |-> result,
     dropped |-> \E d \in Docs :
         ~(StoredKeys(Store, env, d) \subseteq StoredKeys(after, env, d))]

\* one more call was made; the merge bookkeeping is not touched
Counted ==
    /\ nops' = nops + 1
    /\ UNCHANGED <<merged, start, targets>>
    /\ UNCHANGED render_vars
    /\ UNCHANGED config_vars
    /\ UNCHANGED parse_vars

Becomes(s) ==
    LET c == Collect(s) IN
    /\ has_nb_metadata' = c.has
    /\ nb_metadata' = c.meta
    /\ dicts' = c.objs
    /\ nb_new_exec_data' = c.flag

SetDocData ==
    \E env \in Envs(Store), docname \in Docs, key \in DocDataKeys :
    \E value \in (IF key = "exec_data" THEN ExecVals ELSE GlueVals) :
    LET after == set_doc_data(Store, env, docname, key, value) IN
        /\ nops < MaxOps
        /\ Becomes(after)
        /\ call' = Called("set_doc_data", env, docname, key, value, {}, env,
                          FALSE, Absent, after)
        /\ Counted

SetExecData ==
    \E env \in Envs(Store), docname \in Docs, value \in ExecVals :
    LET after == set_exec_data(Store, env, docname, value) IN
        /\ nops < MaxOps
        /\ Becomes(after)
        /\ call' = Called("set_exec_data", env, docname, "exec_data", value, {},
                          env, FALSE, Absent, after)
        /\ Counted

GetExecData ==
    \E env \in Envs(Store), docname \in Docs :
    LET after == get_exec_data(Store, env, docname) IN
        /\ nops < MaxOps
        /\ Becomes(after)
        /\ call' = Called("get_exec_data", env, docname, "", "", {}, env, FALSE,
                          get_exec_data_result(Store, env, docname), after)
        /\ Counted

GetOutdatedDocs ==
    \E env \in Envs(Store) :
    LET after == get_outdated_docs(Store, env) IN
        /\ nops < MaxOps
        /\ Becomes(after)
        /\ call' = Called("get_outdated_docs", env, "d1", "", "", {}, env, FALSE,
                          Absent, after)
        /\ Counted

AddJsFile ==
    \E env \in Envs(Store), docname \in Docs, key \in JsKeys, uri \in UriVals :
    LET after == add_js_file(Store, env, docname, key, uri) IN
        /\ nops < MaxOps
        /\ Becomes(after)
        /\ call' = Called("add_js_file", env, docname, key, uri, {}, env, FALSE,
                          Absent, after)
        /\ Counted

\* the result is reported as the js_files keys returned
GetJsFiles ==
    \E env \in Envs(Store), docname \in Docs :
    LET after == get_js_files(Store, env, docname)
        files == get_js_files_result(Store, env, docname)
    IN  /\ nops < MaxOps
        /\ Becomes(after)
        /\ call' = Called("get_js_files", env, docname, "", "", {}, env, FALSE,
                          IF \E k \in JsKeys : files[k] # Absent
                          THEN "js_files" ELSE Absent, after)
        /\ Counted

ClearDoc ==
    \E env \in Envs(Store), docname \in Docs :
    LET after == clear_doc(Store, env, docname) IN
        /\ nops < MaxOps
        /\ Becomes(after)
        /\ call' = Called("clear_doc", env, docname, "", "", {}, env, FALSE,
                          Absent, after)
        /\ Counted

MergeOther ==
    \E env \in Envs(Store), other \in Envs(Store), docnames \in SUBSET Docs :
    LET after == merge_other(Store, env, docnames, other) IN
        /\ nops < MaxOps
        /\ other # env
        /\ Becomes(after)
        /\ call' = Called("merge_other", env, "d1", "", "", docnames, other,
                          MergeRaises(Store, other), Absent, after)
        /\ Counted

vars == <<collector_vars, render_vars, config_vars, parse_vars>>

\* A build starts from the environment of the previous build (Sphinx pickles
\* it), so a behaviour starts from any store earlier calls can have left:
\* per document no dict (pick 0), or a dict with data (one of EntryChoices).
EntryChoices ==
    <<[EmptyEntry EXCEPT !.exec_data = "r1"],
      [exec_data |-> "r2", glue |-> "g1", js_files |-> [k \in JsKeys |-> "u1"]]>>

EnvOrder == <<"main", "w1", "w2">>
DocOrder == <<"d1", "d2">>
Pos(seq, x) == CHOOSE i \in 1 .. Len(seq) : seq[i] = x
SlotObj(e, d) == (Pos(EnvOrder, e) - 1) * Len(DocOrder) + Pos(DocOrder, d)

\* the store of `envs` holding EntryChoices[pick[e][d]] for document d (0: no
\* dict), every dict an object of its own
StoreOf(envs, pick, flags, attr) ==
    [has |-> [e \in envs |-> attr[e] \/ \E d \in Docs : pick[e][d] # 0],
     meta |-> [e \in envs |-> [d \in Docs |->
                 IF pick[e][d] = 0 THEN 0 ELSE SlotObj(e, d)]],
     objs |-> [o \in ObjIdsFor(envs) |->
                 IF \E e \in envs, d \in Docs : SlotObj(e, d) = o /\ pick[e][d] # 0
                 THEN LET x == CHOOSE x \in envs \X Docs : SlotObj(x[1], x[2]) = o
                      IN EntryChoices[pick[x[1]][x[2]]]
                 ELSE EmptyEntry],
     flag |-> flags]

Picks(envs) == [envs -> [Docs -> 0 .. Len(EntryChoices)]]

\* an earlier merge_other in this process leaves main and the worker sharing
\* the dict of a merged document
RECURSIVE Shared(_, _)
Shared(s, docnames) ==
    IF docnames = {} THEN s
    ELSE LET d == CHOOSE d \in docnames : TRUE
             s1 == IF /\ s.meta["main"][d] # 0
                      /\ s.meta["w1"][d] # 0
                      /\ DocEntry(s, "main", d) = DocEntry(s, "w1", d)
                   THEN [s EXCEPT !.meta["main"][d] = s.meta["w1"][d]]
                   ELSE s
         IN Shared(s1, docnames \ {d})

InitCollector ==
    \E pick \in Picks({"main", "w1"}) :
    \E flags \in {f \in [{"main", "w1"} -> {"unset", "False", "True"}] :
                      f["w1"] # "False"} :
    \E attr \in [{"main", "w1"} -> BOOLEAN] :
    \E share \in {{}, Docs} :
    LET s == Collect(Shared(StoreOf({"main", "w1"}, pick, flags, attr), share)) IN
    /\ has_nb_metadata = s.has
    /\ nb_metadata = s.meta
    /\ dicts = s.objs
    /\ nb_new_exec_data = s.flag
    /\ call = NoCall
    /\ nops = 0
    /\ merged = {}
    /\ start = s
    /\ targets = [w \in {"w1"} |-> {}]
    /\ InitIdleRender
    /\ InitIdleConfig
    /\ InitIdleParse

NextCollector ==
    \/ SetDocData
    \/ SetExecData
    \/ GetExecData
    \/ GetOutdatedDocs
    \/ AddJsFile
    \/ GetJsFiles
    \/ ClearDoc
    \/ MergeOther

SpecCollector == InitCollector /\ [][NextCollector]_vars

\* ------------------------------------------------------------------------
\* a parallel read: the workers start as copies of main, read the documents
\* they are given, and main merges them back in some order
\* ------------------------------------------------------------------------

\* which worker reads which document: every document at most one worker
Assignments == [Docs -> Workers \cup {"none"}]

TargetsOf(assign) == [w \in Workers |-> {d \in Docs : assign[d] = w}]

\* the stores when the merging begins: a worker holds what it read for its
\* own documents and main's entry for the others
ForkedStore(main_pick, read_pick, assign, flags) ==
    StoreOf(AllEnvs,
            [e \in AllEnvs |-> [d \in Docs |->
                IF e # "main" /\ assign[d] = e THEN read_pick[d] ELSE main_pick[d]]],
            flags, [e \in AllEnvs |-> TRUE])

InitMerge ==
    \E main_pick \in [Docs -> 0 .. Len(EntryChoices)] :
    \E read_pick \in [Docs -> 0 .. Len(EntryChoices)] :
    \E assign \in Assignments :
    \E flags \in [AllEnvs -> {"False", "True"}] :
    LET s == Collect(ForkedStore(main_pick, read_pick, assign, flags)) IN
    /\ has_nb_metadata = s.has
    /\ nb_metadata = s.meta
    /\ dicts = s.objs
    /\ nb_new_exec_data = s.flag
    /\ call = NoCall
    /\ nops = 0
    /\ merged = {}
    /\ start = s
    /\ targets = TargetsOf(assign)
    /\ InitIdleRender
    /\ InitIdleConfig
    /\ InitIdleParse

\* env-merge-info for one worker: merge_other(app, env, docnames, other)
MergeWorker ==
    \E w \in Workers \ merged :
    LET after == merge_other(Store, "main", targets[w], w) IN
        /\ Becomes(after)
        /\ call' = Called("merge_other", "main", "d1", "", "", targets[w], w,
                          MergeRaises(Store, w), Absent, after)
        /\ merged' = merged \cup {w}
        /\ UNCHANGED <<nops, start, targets>>
        /\ UNCHANGED render_vars
        /\ UNCHANGED config_vars
        /\ UNCHANGED parse_vars

NextMerge == MergeWorker

SpecMerge == InitMerge /\ [][NextMerge]_vars

\* the stores idle, for the specifications of the renderer
InitIdleCollector ==
    LET s == InitStore({"main"}) IN
    /\ has_nb_metadata = s.has
    /\ nb_metadata = s.meta
    /\ dicts = s.objs
    /\ nb_new_exec_data = s.flag
    /\ call = NoCall
    /\ nops = 0
    /\ merged = {}
    /\ start = s
    /\ targets = [w \in {"w1"} |-> {}]

\* one output with several mime types, rendered and then resolved for a builder
InitMime ==
    /\ InitIdleCollector
    /\ InitIdleConfig
    /\ InitIdleParse
    /\ nb_config = DefaultConfig
    /\ notebook \in NotebooksMime
    /\ rendered = 0
    /\ doctree = EmptyDocument
    /\ bname \in Builders
    /\ priority_list \in Distinct(MimeTypes, Cardinality(MimeTypes))
    /\ pc = "parse"
    /\ todo = <<>>
    /\ last = NoLast
    /\ log = <<>>
    /\ runs = 0

SpecMime == InitMime /\ [][NextRender]_vars

\* ------------------------------------------------------------------------
\* notebooks of code cells with tags, render metadata and mixed outputs
\* ------------------------------------------------------------------------

\* the tags and the render namespace of a cell
Flaggings ==
    {CellMetadata(NoTags, FALSE, NoRender),
     CellMetadata({"remove_input"}, FALSE, NoRender),
     CellMetadata({"remove_output"}, FALSE, NoRender),
     CellMetadata({"remove-input", "remove-output"}, FALSE, NoRender),
     CellMetadata({"hide-input"}, FALSE, NoRender),
     CellMetadata(NoTags, TRUE, [NoRender EXCEPT !["remove_code_source"] = "True"]),
     CellMetadata(NoTags, TRUE, [NoRender EXCEPT !["remove_code_outputs"] = "True"]),
     CellMetadata({"remove-output"}, TRUE,
                  [NoRender EXCEPT !["remove_code_source"] = "False",
                                   !["remove_code_outputs"] = "False"])}

Stream(name, n) == Output("stream", name, [i \in 1 .. n |-> Plain], <<>>)

OutputLists ==
    {<<>>,
     <<Stream("stdout", 2), Stream("stderr", 1),
       Output("error", "", <<Plain>>, <<>>)>>,
     <<Stream("stdlog", 1), Output("raw", "", <<Plain>>, <<>>), Stream("stdout", 1)>>,
     <<Output("display_data", "", <<>>,
              <<[mime_type |-> "text/plain", content |-> <<Plain>>],
                [mime_type |-> "image/png", content |-> <<Plain>>]>>),
       Stream("stdout", 1)>>}

Cells == {CodeCell(metadata, outputs) : metadata \in Flaggings, outputs \in OutputLists}

NotebooksRender == UNION {[1 .. n -> Cells] : n \in 1 .. MaxCells}

Configs ==
    {[DefaultConfig EXCEPT !["remove_code_source"] = a, !["remove_code_outputs"] = b] :
        a \in {"False", "True"}, b \in {"False", "True"}}

\* Parser.parse on a notebook, under a configuration
InitRender ==
    /\ InitIdleCollector
    /\ InitIdleConfig
    /\ InitIdleParse
    /\ nb_config \in Configs
    /\ notebook \in NotebooksRender
    /\ rendered = 0
    /\ doctree = EmptyDocument
    /\ bname = "html"
    /\ priority_list = <<>>
    /\ pc = "parse"
    /\ todo = <<>>
    /\ last = NoLast
    /\ log = <<>>
    /\ runs = 0

NextParse == RenderNbCellCode

SpecRender == InitRender /\ [][NextParse]_vars

\* ------------------------------------------------------------------------
\* Parser.parse from the configuration on
\* ------------------------------------------------------------------------

ParseConfigs ==
    {[k \in ParseFields |-> IF k = "output_folder" THEN "build" ELSE c[k]] :
        c \in Configs}

OverrideChoices ==
    {NoOverrides} \cup
    {[present |-> TRUE, fields |-> f] : f \in [ParseFields -> OverrideValues]}

\* notebooks of one cell without tags and render metadata
NotebooksParser ==
    {<<c>> : c \in {c \in Cells : c.metadata = CellMetadata(NoTags, FALSE, NoRender)}}

\* what execute_notebook returns as exec_data: nothing, a result, a result
\* with a traceback
ExecResults == {Absent, "r1", "r2"}

InitParser ==
    /\ InitIdleCollector
    /\ InitIdleConfig
    /\ mystnb_config \in ParseConfigs
    /\ nb_config = mystnb_config
    /\ overrides \in OverrideChoices
    /\ parse_log = <<>>
    /\ notebook \in NotebooksParser
    /\ rendered = 0
    /\ doctree = EmptyDocument
    /\ bname = "html"
    /\ priority_list = <<>>
    /\ pc = "config"
    /\ todo = <<>>
    /\ last = NoLast
    /\ log = <<>>
    /\ runs = 0

\* Parser.parse: the overrides of the notebook metadata
UpdateConfiguration ==
    /\ pc = "config"
    /\ LET u == update_configuration(nb_config, overrides, parse_log)
       IN /\ nb_config' = u.nb_config
          /\ parse_log' = u.log
    /\ pc' = "execute"
    /\ UNCHANGED <<notebook, rendered, doctree, bname, priority_list, todo, last,
                   log, runs>>
    /\ UNCHANGED <<mystnb_config, overrides>>
    /\ UNCHANGED collector_vars
    /\ UNCHANGED config_vars

\* Parser.parse: execute_notebook, and what is kept of its exec_data
ExecuteNotebook ==
    \E exec_data \in ExecResults :
        /\ pc = "execute"
        /\ IF exec_data = Absent
           THEN UNCHANGED <<has_nb_metadata, nb_metadata, dicts, nb_new_exec_data, call>>
           ELSE LET after == set_exec_data(Store, "main", "d1", exec_data)
                IN /\ Becomes(after)
                   /\ call' = Called("set_exec_data", "main", "d1", "exec_data",
                                     exec_data, {}, "main", FALSE, Absent, after)
        /\ parse_log' = IF exec_data = "r2"
                        THEN Append(parse_log, [subtype |-> "exec"])
                        ELSE parse_log
        /\ pc' = "parse"
        /\ UNCHANGED <<nops, merged, start, targets>>
        /\ UNCHANGED <<nb_config, notebook, rendered, doctree, bname, priority_list,
                       todo, last, log, runs>>
        /\ UNCHANGED <<mystnb_config, overrides>>
        /\ UNCHANGED config_vars

NextParser ==
    \/ UpdateConfiguration
    \/ ExecuteNotebook
    \/ RenderNbCellCode

SpecParser == InitParser /\ [][NextParser]_vars

\* ------------------------------------------------------------------------
\* calls of get_cell_render_config
\* ------------------------------------------------------------------------

RenderValues == {"True", "False", ""}

\* cell metadata without the render namespace, with an empty one, and with
\* one key in it
Metadatas ==
    {CellMetadata(NoTags, FALSE, NoRender), CellMetadata(NoTags, TRUE, NoRender)}
    \cup {CellMetadata(NoTags, TRUE, [NoRender EXCEPT ![k] = v]) :
              k \in RenderKeys, v \in RenderValues}

NbKeys == {"None"} \cup ConfigFields

\* the configuration key a fallback reads
FallbackKey(key, nb_key) == IF nb_key = "None" THEN key ELSE nb_key

\* the calls whose fallback, if any, reads a field the configuration has
Lookups ==
    {l \in [cell_metadata : Metadatas, key : RenderKeys, nb_key : NbKeys,
            has_nb_key : BOOLEAN] :
        l.has_nb_key => FallbackKey(l.key, l.nb_key) \in ConfigFields}

InitConfig ==
    /\ InitIdleCollector
    /\ nb_config \in Configs
    /\ notebook = <<>>
    /\ rendered = 0
    /\ doctree = EmptyDocument
    /\ bname = "html"
    /\ priority_list = <<>>
    /\ pc = "parse"
    /\ todo = <<>>
    /\ last = NoLast
    /\ log = <<>>
    /\ runs = 0
    /\ lookup \in Lookups
    /\ answer = NoAnswer
    /\ InitIdleParse

\* self.get_cell_render_config(cell_metadata, key, nb_key, has_nb_key)
GetCellRenderConfig ==
    /\ answer = NoAnswer
    /\ lookup # NoLookup
    /\ answer' = get_cell_render_config(nb_config, lookup.cell_metadata, lookup.key,
                                        lookup.nb_key, lookup.has_nb_key)
    /\ UNCHANGED lookup
    /\ UNCHANGED render_vars
    /\ UNCHANGED collector_vars
    /\ UNCHANGED parse_vars

NextConfig == GetCellRenderConfig

SpecConfig == InitConfig /\ [][NextConfig]_vars

\* ========================================================================
\* properties of the rendered tree and of SelectMimeType
\* ========================================================================

\* ------------------------------------------------------------------------
\* properties of the metadata store
\* ------------------------------------------------------------------------

\* the worker that read a document, if any
ReaderOf(d) == {w \in Workers : d \in targets[w]}

\* C6: after the stores of all workers, with pairwise disjoint document
\* sets, were merged into main, in whatever order, main's entry of a
\* document is the entry of the worker that read it (main's own if none
\* did), and main's flag is set iff it was set in main or in some worker
\* when the merging began.
C6_MergeOrder ==
    merged = Workers =>
        /\ \A d \in Docs :
               DocEntry(Store, "main", d) =
                   IF ReaderOf(d) = {} THEN DocEntry(start, "main", d)
                   ELSE DocEntry(start, CHOOSE w \in ReaderOf(d) : TRUE, d)
        /\ new_exec_data(Store, "main") <=>
               \E e \in AllEnvs : new_exec_data(start, e)

\* both workers read a document, only w1 has new execution data, and w2
\* was merged last
C6_Witness ==
    /\ merged = Workers
    /\ call.other = "w2"
    /\ targets["w1"] # {} /\ targets["w2"] # {}
    /\ \A d \in Docs : DocEntry(start, "main", d) # DocEntry(Store, "main", d)
    /\ DocEntry(Store, "main", "d1") # DocEntry(Store, "main", "d2")
    /\ ~new_exec_data(start, "main")
    /\ new_exec_data(start, "w1")
    /\ ~new_exec_data(start, "w2")
    /\ new_exec_data(Store, "main")

\* C7: merge_other(docnames, other) makes the entry of every document in
\* docnames the whole entry of other, so that keys other does not hold are
\* gone, and leaves the entries of the other documents as they were.
C7_MergeReplaces ==
    [][call'.op = "merge_other" =>
          \A d \in Docs :
              DocEntry(Store', call'.env, d) =
                  IF d \in call'.docnames THEN DocEntry(Store, call'.other, d)
                  ELSE DocEntry(Store, call'.env, d)]_vars

\* a merge of one document took keys away from it and left the data of the
\* other document
C7_Witness ==
    /\ call.op = "merge_other"
    /\ call.dropped
    /\ Cardinality(call.docnames) = 1
    /\ \E d \in call.docnames :
           /\ StoredKeys(Store, call.env, d) = {"exec_data"}
           /\ StoredKeys(start, call.env, d) = {"exec_data", "glue", "js_files"}
    /\ \E d \in Docs \ call.docnames : StoredKeys(Store, call.env, d) # {}

\* C8: the flag is false after get_outdated_docs; set_exec_data and a
\* merge_other with a flagged store make it true, nothing else changes it;
\* set_exec_data(id, r) stores r under "exec_data" of document id.
C8_FlagTimeline ==
    [][/\ call'.op = "get_outdated_docs" => ~new_exec_data(Store', call'.env)
       /\ call'.op = "set_exec_data" =>
              /\ new_exec_data(Store', call'.env)
              /\ DocEntry(Store', call'.env, call'.doc).exec_data = call'.value
       /\ call'.op = "merge_other" =>
              (new_exec_data(Store', call'.env) <=>
                  new_exec_data(Store, call'.env) \/ new_exec_data(Store, call'.other))
       /\ call'.op \notin {"get_outdated_docs", "set_exec_data", "merge_other"} =>
              nb_new_exec_data' = nb_new_exec_data
       /\ \A e \in Envs(Store) \ {call'.env} :
              nb_new_exec_data'[e] = nb_new_exec_data[e]]_vars

\* set_exec_data raised a flag that get_outdated_docs had taken down, and
\* stored its value over another
C8_Witness ==
    /\ call.op = "set_exec_data"
    /\ start.flag[call.env] = "False"
    /\ new_exec_data(Store, call.env)
    /\ DocEntry(start, call.env, call.doc).exec_data = "r1"
    /\ DocEntry(Store, call.env, call.doc).exec_data = "r2"

\* C9: after clear_doc(id) the store holds nothing for id: no execution
\* data, no js files, no glue; the entries of the other documents are what
\* they were.
C9_ClearDoc ==
    [][call'.op = "clear_doc" =>
          /\ nb_metadata'[call'.env][call'.doc] = 0
          /\ get_exec_data_result(Store', call'.env, call'.doc) = Absent
          /\ get_js_files_result(Store', call'.env, call'.doc) = EmptyEntry.js_files
          /\ DocEntry(Store', call'.env, call'.doc).glue = Absent
          /\ \A e \in Envs(Store), d \in Docs :
                 <<e, d>> # <<call'.env, call'.doc>> =>
                     /\ DocEntry(Store', e, d) = DocEntry(Store, e, d)
                     /\ nb_metadata'[e][d] = 0 <=> nb_metadata[e][d] = 0]_vars

\* clear_doc took a document with execution data, glue and js files away,
\* one whose dict a worker shares, and the other document kept its data
C9_Witness ==
    /\ call.op = "clear_doc"
    /\ call.env = "main"
    /\ call.dropped
    /\ StoredKeys(start, "main", call.doc) = {"exec_data", "glue", "js_files"}
    /\ start.meta["main"][call.doc] = start.meta["w1"][call.doc]
    /\ StoredKeys(Store, "main", call.doc) = {}
    /\ StoredKeys(Store, "w1", call.doc) = {"exec_data", "glue", "js_files"}
    /\ \E d \in Docs \ {call.doc} : StoredKeys(Store, "main", d) # {}

\* ------------------------------------------------------------------------
\* properties of the rendering of code cells
\* ------------------------------------------------------------------------

\* what the flags of a cell resolve to: the value of the cell's render
\* namespace if it has one for the key, else the configuration's
Resolved(cell, key) ==
    IF cell.metadata.has_render /\ cell.metadata.render[key] # Absent
    THEN Truthy(cell.metadata.render[key])
    ELSE Truthy(nb_config[key])

InputRemoved(cell) ==
    \/ Resolved(cell, "remove_code_source")
    \/ cell.metadata.tags \cap {"remove_input", "remove-input"} # {}

OutputRemoved(cell) ==
    \/ Resolved(cell, "remove_code_outputs")
    \/ cell.metadata.tags \cap {"remove_output", "remove-output"} # {}

\* the nodes made while cell number i was rendered, attached or not
NodesOfCell(tree, i) == {n \in 1 .. Len(tree) : tree[n].origin.cell = i}

\* C10: get_cell_render_config returns the value of the key in the render
\* namespace of the cell metadata when the namespace is there and has the
\* key; else it raises KeyError when has_nb_key is false, and returns the
\* configuration's value under nb_key, or under key when nb_key is None,
\* when has_nb_key is true; the cell metadata and the configuration are
\* left as they were.
C10_CellRenderConfig ==
    [][answer' # NoAnswer =>
          /\ IF /\ lookup.cell_metadata.has_render
                /\ lookup.cell_metadata.render[lookup.key] # Absent
             THEN answer' = Returned(lookup.cell_metadata.render[lookup.key])
             ELSE IF ~lookup.has_nb_key
             THEN answer'.raised = "KeyError"
             ELSE answer' = Returned(nb_config[FallbackKey(lookup.key, lookup.nb_key)])
          /\ lookup' = lookup
          /\ nb_config' = nb_config]_vars

\* a call that found a false value for the key in the cell metadata while
\* the configuration holds a true one under the fallback key
C10_Witness ==
    /\ answer = Returned("False")
    /\ lookup.has_nb_key
    /\ lookup.key = "remove_code_source"
    /\ lookup.nb_key = "remove_code_outputs"
    /\ lookup.cell_metadata.render["remove_code_source"] = "False"
    /\ nb_config["remove_code_outputs"] = "True"
    /\ nb_config["remove_code_source"] = "True"

\* C1: a code cell whose remove-input and remove-output flags both resolve
\* true adds no node to the document tree, whatever its outputs are.
C1_BothRemoved ==
    \A i \in 1 .. rendered :
        (InputRemoved(notebook[i]) /\ OutputRemoved(notebook[i])) =>
            NodesOfCell(doctree, i) = {}

\* a rendered cell with outputs, its input removed by a tag and its outputs
\* by the configuration
C1_Witness ==
    \E i \in 1 .. rendered :
        /\ notebook[i].outputs # <<>>
        /\ notebook[i].metadata.tags = {"remove_input"}
        /\ nb_config["remove_code_outputs"] = "True"
        /\ nb_config["remove_code_source"] = "False"
        /\ NodesOfCell(doctree, i) = {}

\* the nodes reachable from the document
Reachable(tree) ==
    LET found == findall(tree, 1)
    IN {found[i] : i \in 1 .. Len(found)}

\* the mime bundles render_nb_cell_code_outputs made for an output and left
\* reachable
BundlesFor(tree, cell, output) ==
    {n \in Reachable(tree) :
        /\ IsMimeBundle(tree, n)
        /\ tree[n].origin = Origin(cell, output, "", 0)}

\* the mime types of an output for which the renderer returned nodes
RenderedTypes(data) ==
    SelectSeq([i \in 1 .. Len(data) |-> data[i].mime_type],
              LAMBDA m : \E i \in 1 .. Len(data) :
                  data[i].mime_type = m /\ data[i].content # <<>>)

\* the node the nodes of the outputs of a cell hang from: the figure if one
\* was made, else the cell_code_output container
OutputHolder(tree, cell) ==
    LET figures == {n \in Reachable(tree) :
                        tree[n].tag = "figure" /\ tree[n].origin.cell = cell}
        outs == {n \in Reachable(tree) :
                        tree[n].nb_element = "cell_code_output"
                        /\ tree[n].origin.cell = cell}
    IN IF figures # {} THEN CHOOSE n \in figures : TRUE
       ELSE CHOOSE n \in outs : TRUE

\* the nodes standing where the mime bundle of the one output stood
Survivors(tree) == tree[OutputHolder(tree, 1)].children

TheData == notebook[1].outputs[1].data

Built == pc = "parse" /\ rendered = 1

FirstRunDone == pc = "done" /\ runs = 1

\* C2 as stated: exactly one mime bundle is emitted for a display_data
\* output with N mime types, it holds at most N mime containers, and after
\* SelectMimeType.run at most one node survives in its place.
C2_AsStated ==
    /\ Built =>
          /\ Cardinality(BundlesFor(doctree, 1, 1)) = 1
          /\ \A b \in BundlesFor(doctree, 1, 1) :
                 Len(doctree[b].children) <= Len(TheData)
    /\ FirstRunDone => Len(Survivors(doctree)) <= 1

\* C2, amended: at most one mime bundle is emitted, exactly one when some
\* mime type rendered to nodes and none otherwise; its mime containers are
\* the mime types that rendered to nodes, in the order of the data (so at
\* most N); after SelectMimeType.run no bundle of the output is left and the
\* nodes in its place all come from the rendering of a single mime type.
C2_Amended ==
    /\ Built =>
          /\ Cardinality(BundlesFor(doctree, 1, 1)) =
                 (IF RenderedTypes(TheData) # <<>> THEN 1 ELSE 0)
          /\ \A b \in BundlesFor(doctree, 1, 1) :
                 /\ ChildMimeTypes(doctree, b) = RenderedTypes(TheData)
                 /\ Len(doctree[b].children) <= Len(TheData)
    /\ FirstRunDone =>
          /\ BundlesFor(doctree, 1, 1) = {}
          /\ \A i, j \in 1 .. Len(Survivors(doctree)) :
                 doctree[Survivors(doctree)[i]].origin.mime =
                 doctree[Survivors(doctree)[j]].origin.mime
          /\ \A i \in 1 .. Len(Survivors(doctree)) :
                 \E d \in 1 .. Len(TheData) :
                     /\ TheData[d].mime_type =
                            doctree[Survivors(doctree)[i]].origin.mime
                     /\ Len(Survivors(doctree)) <= Len(TheData[d].content)

\* two mime types rendered, one of them to two nodes, and both nodes stand
\* in the place of the bundle after the run
C2_Witness ==
    /\ FirstRunDone
    /\ Len(TheData) = 2
    /\ Len(RenderedTypes(TheData)) = 2
    /\ Len(Survivors(doctree)) = 2

\* the bundle handled last, as it was before the step
LastTypes == ChildMimeTypes(last.before, last.node)

LastParent == last.before[last.node].parent

\* the positions in the priority list of the mime types of the bundle
Matches ==
    {i \in 1 .. Len(priority_list) :
        \E c \in 1 .. Len(LastTypes) : LastTypes[c] = priority_list[i]}

Splice(children, node, new) ==
    SubSeq(children, 1, IndexOf(children, node) - 1) \o new \o
    SubSeq(children, IndexOf(children, node) + 1, Len(children))

\* C3: of the children of a bundle the one whose mime type comes first in
\* the priority list is selected, whatever the order and number of the
\* children, and the children of that child take the bundle's place in its
\* parent.
C3_PrioritySelects ==
    (last.node # 0 /\ Matches # {}) =>
        LET winner == CHOOSE c \in 1 .. Len(LastTypes) :
                          LastTypes[c] = priority_list[Min(Matches)]
            chosen == last.before[last.before[last.node].children[winner]].children
        IN /\ doctree[LastParent].children =
                  Splice(last.before[LastParent].children, last.node, chosen)
           /\ \A i \in 1 .. Len(chosen) : doctree[chosen[i]].parent = LastParent

\* a bundle of two children whose second child wins, on a mime type that is
\* not the head of the priority list
C3_Witness ==
    /\ last.node # 0
    /\ Len(LastTypes) = 2
    /\ Matches # {}
    /\ Min(Matches) > 1
    /\ LastTypes[2] = priority_list[Min(Matches)]
    /\ LastTypes[1] \in {priority_list[i] : i \in 1 .. Len(priority_list)}
    /\ doctree[LastParent].children # last.before[LastParent].children

\* C4: a bundle with children none of whose mime types is in the priority
\* list is removed from its parent and exactly one warning is logged, naming
\* the mime types of the bundle and the builder; a bundle with a match or
\* without children logs nothing.
C4_Warning ==
    last.node # 0 =>
        IF LastTypes # <<>> /\ Matches = {}
        THEN /\ doctree[LastParent].children =
                    Splice(last.before[LastParent].children, last.node, <<>>)
             /\ Len(log) = Len(last.log) + 1
             /\ SubSeq(log, 1, Len(last.log)) = last.log
             /\ log[Len(log)].mime_types = LastTypes
             /\ log[Len(log)].bname = bname
             /\ log[Len(log)].location = last.node
        ELSE log = last.log

\* a bundle of two mime types, neither in the priority list, was removed
\* with a warning
C4_Witness ==
    /\ last.node # 0
    /\ Len(LastTypes) = 2
    /\ Matches = {}
    /\ Len(log) = 1
    /\ last.node \notin Reachable(doctree)

\* C5: when a run is over no mime bundle is reachable from the document,
\* and a second run on that tree changes nothing and logs nothing.
C5_Idempotent ==
    [][/\ pc' = "done" =>
              \A n \in Reachable(doctree') : ~IsMimeBundle(doctree', n)
       /\ runs' >= 2 => doctree' = doctree /\ log' = <<>>]_vars

\* a second run is over, on a tree whose first run resolved a nested bundle
C5_Witness ==
    /\ pc = "done"
    /\ runs = 2
    /\ \E n \in 1 .. Len(doctree) :
           IsMimeBundle(doctree, n) /\ doctree[n].origin.mime # ""

\* the cell containers of cell number i, and what a node holds
CellContainers(tree, i) ==
    {n \in Reachable(tree) :
        tree[n].nb_element = "cell_code" /\ tree[n].origin.cell = i}

ChildElements(tree, n) ==
    [k \in 1 .. Len(tree[n].children) |-> tree[tree[n].children[k]].nb_element]

\* a cell tagged hide-input whose outputs are kept and that has outputs
HiddenInput(cell) ==
    /\ "hide-input" \in cell.metadata.tags
    /\ ~OutputRemoved(cell)
    /\ cell.outputs # <<>>

\* C11 as stated: a cell tagged hide-input, with remove_code_outputs false
\* and at least one output, gets a cell_output container and no cell_input
\* container.
C11_AsStated ==
    \A i \in 1 .. rendered :
        HiddenInput(notebook[i]) =>
            \A n \in CellContainers(doctree, i) :
                ChildElements(doctree, n) = <<"cell_code_output">>

\* C11, amended: the hide-input tag removes nothing. Such a cell gets one
\* cell container with the class tag_hide-input, holding a cell_output
\* container, and before it a cell_input container unless the remove-input
\* flag (configuration or remove_input/remove-input tag) resolves true.
C11_Amended ==
    \A i \in 1 .. rendered :
        HiddenInput(notebook[i]) =>
            /\ Cardinality(CellContainers(doctree, i)) = 1
            /\ \A n \in CellContainers(doctree, i) :
                   /\ "tag_hide-input" \in doctree[n].classes
                   /\ ChildElements(doctree, n) =
                          IF InputRemoved(notebook[i])
                          THEN <<"cell_code_output">>
                          ELSE <<"cell_code_source", "cell_code_output">>

\* a cell tagged hide-input was rendered, under a configuration that removes
\* nothing, with its cell_input container in the tree
C11_Witness ==
    \E i \in 1 .. rendered :
        /\ HiddenInput(notebook[i])
        /\ nb_config = DefaultConfig
        /\ \E n \in CellContainers(doctree, i) :
               ChildElements(doctree, n) = <<"cell_code_source", "cell_code_output">>

\* the cell_output containers of cell number i
OutputContainers(tree, i) ==
    {n \in Reachable(tree) :
        tree[n].nb_element = "cell_code_output" /\ tree[n].origin.cell = i}

\* the number of nodes an output puts into the cell_output container
NodesPut(output) ==
    IF output.output_type = "stream"
    THEN IF output.name \in {"stdout", "stderr"} THEN Len(output.content) ELSE 0
    ELSE IF output.output_type = "error" THEN Len(output.content)
    ELSE IF output.output_type \in {"display_data", "execute_result"}
    THEN IF RenderedTypes(output.data) # <<>> THEN 1 ELSE 0
    ELSE 1

\* the outputs the children of a node come from
OutputsBehind(tree, n) ==
    [k \in 1 .. Len(tree[n].children) |-> tree[tree[n].children[k]].origin.output]

\* C12: the nodes in the cell_output container of a cell stand in the order
\* of the outputs they come from, for every mix of stream, error and
\* display_data outputs, each output with the nodes it rendered to, none
\* twice.
C12_OutputOrder ==
    \A i \in 1 .. rendered :
        \A n \in OutputContainers(doctree, i) :
            LET from == OutputsBehind(doctree, n)
                ch == doctree[n].children
            IN /\ \A a, b \in 1 .. Len(ch) :
                      a < b =>
                          \/ from[a] < from[b]
                          \/ /\ from[a] = from[b]
                             /\ doctree[ch[a]].origin.k < doctree[ch[b]].origin.k
               /\ \A j \in 1 .. Len(notebook[i].outputs) :
                      Cardinality({a \in 1 .. Len(ch) : from[a] = j}) =
                          NodesPut(notebook[i].outputs[j])
               /\ \A a \in 1 .. Len(ch) :
                      /\ doctree[ch[a]].origin.cell = i
                      /\ from[a] \in 1 .. Len(notebook[i].outputs)

\* a stdout stream of two nodes, a stderr stream and an error were rendered,
\* in that order
C12_Witness ==
    \E i \in 1 .. rendered :
        /\ Len(notebook[i].outputs) = 3
        /\ notebook[i].outputs[1].name = "stdout"
        /\ notebook[i].outputs[2].name = "stderr"
        /\ \E n \in OutputContainers(doctree, i) :
               /\ OutputsBehind(doctree, n) = <<1, 1, 2, 3>>
               /\ doctree[doctree[n].children[3]].origin.mime = "stderr"

\* ------------------------------------------------------------------------
\* properties of Parser.parse
\* ------------------------------------------------------------------------

\* an override other than output_folder has a value its field does not take
BadOverride ==
    /\ overrides.present
    /\ \E k \in ConfigFields : overrides.fields[k] = "bad"

\* the configuration of the build with the overrides, output_folder left out
Overridden ==
    [k \in ParseFields |->
        IF k # "output_folder" /\ overrides.present /\ overrides.fields[k] # Absent
        THEN overrides.fields[k] ELSE mystnb_config[k]]

ConfigWarnings == SelectSeq(parse_log, LAMBDA w : w.subtype = "config")

\* parse has executed the notebook and rendered its cells
Parsed == pc = "parse" /\ rendered = Len(notebook)

\* C13: when applying the overrides of the notebook metadata fails, parse
\* goes on with the configuration of the build, none of the overrides
\* applied, logs exactly one warning of subtype "config", and executes and
\* renders the notebook under that configuration (until the cells are
\* rendered a next step of parse is due); when it succeeds every override
\* but output_folder is applied, and no such warning is logged.
C13_Overrides ==
    /\ pc # "config" =>
           /\ nb_config = (IF BadOverride THEN mystnb_config ELSE Overridden)
           /\ Len(ConfigWarnings) = (IF BadOverride THEN 1 ELSE 0)
           /\ rendered = 1 =>
                  doctree = render_nb_cell_code(
                                Rendering(EmptyDocument, 1), CellToken(notebook, 1),
                                notebook,
                                IF BadOverride THEN mystnb_config ELSE Overridden).tree
    /\ (BadOverride /\ ~Parsed) =>
           \/ pc \in {"config", "execute"}
           \/ pc = "parse" /\ rendered < Len(notebook)

\* an invalid override next to a valid one that would have removed the
\* source: parse is through, one warning, the notebook executed, and the
\* source of the cell rendered
C13_Witness ==
    /\ Parsed
    /\ overrides.present
    /\ overrides.fields["remove_code_source"] = "True"
    /\ overrides.fields["remove_code_outputs"] = "bad"
    /\ overrides.fields["output_folder"] = "bad"
    /\ mystnb_config["remove_code_source"] = "False"
    /\ Len(ConfigWarnings) = 1
    /\ call.op = "set_exec_data"
    /\ \E n \in Reachable(doctree) : doctree[n].nb_element = "cell_code_source"

\* the child of the bundle handled last that the priority list selects, and
\* the children of the bundle that have content
LastWinner ==
    last.before[last.node].children[
        CHOOSE c \in 1 .. Len(LastTypes) : LastTypes[c] = priority_list[Min(Matches)]]

LastFilled ==
    {c \in 1 .. Len(LastTypes) :
        last.before[last.before[last.node].children[c]].children # <<>>}

\* C14: when the child the priority list selects has no children, the
\* bundle is removed from its parent and nothing takes its place, also when
\* a child of lower priority has content; no warning is logged.
C14_NoFallback ==
    (last.node # 0 /\ Matches # {}) =>
        (last.before[LastWinner].children = <<>> =>
            /\ doctree[LastParent].children =
                   Splice(last.before[LastParent].children, last.node, <<>>)
            /\ \A c \in 1 .. Len(LastTypes) :
                   \A n \in 1 .. Len(doctree) :
                       doctree[n].parent = last.before[last.node].children[c] =>
                           n \notin Reachable(doctree)
            /\ log = last.log)

\* a bundle in the tree whose selected child is empty while a child of lower
\* priority, in the priority list too, has content; the bundle is gone
C14_Witness ==
    /\ last.node # 0
    /\ Matches # {}
    /\ last.node \in Reachable(last.before)
    /\ last.before[LastWinner].children = <<>>
    /\ \E c \in LastFilled :
           \E i \in Matches : priority_list[i] = LastTypes[c] /\ i > Min(Matches)
    /\ last.node \notin Reachable(doctree)
    /\ Len(doctree[LastParent].children) < Len(last.before[LastParent].children)

KnownOutputTypes == {"stream", "error", "display_data", "execute_result"}

\* the children of a node that come from output number j
NodesFrom(tree, n, j) ==
    SelectSeq(tree[n].children, LAMBDA c : tree[c].origin.output = j)

IsOutputTypeWarning(tree, c) ==
    tree[c].tag = "system_message" /\ "output_type" \in tree[c].classes

\* C15: an output of an unknown output type puts exactly one warning node of
\* subtype "output_type" at its position among the nodes of the outputs, a
\* stream that is neither stdout nor stderr puts no node and no warning, and
\* in both cases the later outputs of the cell are rendered as ever.
C15_UnknownOutputs ==
    \A i \in 1 .. rendered :
        \A n \in OutputContainers(doctree, i) :
            LET outputs == notebook[i].outputs
                from == OutputsBehind(doctree, n)
            IN /\ \A a, b \in 1 .. Len(from) : a < b => from[a] <= from[b]
               /\ \A j \in 1 .. Len(outputs) :
                      /\ outputs[j].output_type \notin KnownOutputTypes =>
                             /\ Len(NodesFrom(doctree, n, j)) = 1
                             /\ IsOutputTypeWarning(doctree, NodesFrom(doctree, n, j)[1])
                      /\ outputs[j].output_type \in KnownOutputTypes =>
                             \A k \in 1 .. Len(NodesFrom(doctree, n, j)) :
                                 ~IsOutputTypeWarning(doctree, NodesFrom(doctree, n, j)[k])
                      /\ (/\ outputs[j].output_type = "stream"
                          /\ outputs[j].name \notin {"stdout", "stderr"}) =>
                             NodesFrom(doctree, n, j) = <<>>
                      /\ (\E h \in 1 .. j - 1 :
                              \/ outputs[h].output_type \notin KnownOutputTypes
                              \/ /\ outputs[h].output_type = "stream"
                                 /\ outputs[h].name \notin {"stdout", "stderr"}) =>
                             Len(NodesFrom(doctree, n, j)) = NodesPut(outputs[j])

\* a stream named stdlog, an output of type raw and a stdout stream: the
\* cell_output container holds the warning for raw, then the stdout node
C15_Witness ==
    \E i \in 1 .. rendered :
        /\ Len(notebook[i].outputs) = 3
        /\ notebook[i].outputs[1].name = "stdlog"
        /\ notebook[i].outputs[2].output_type = "raw"
        /\ \E n \in OutputContainers(doctree, i) :
               /\ OutputsBehind(doctree, n) = <<2, 3>>
               /\ IsOutputTypeWarning(doctree, doctree[n].children[1])
               /\ doctree[doctree[n].children[2]].origin.mime = "stdout"

\* a cell that render_nb_cell_code does not skip
NotSkipped(cell) == ~(InputRemoved(cell) /\ OutputRemoved(cell))

\* what the cell container of a cell is to hold
ExpectedElements(cell) ==
    (IF ~InputRemoved(cell) THEN <<"cell_code_source">> ELSE <<>>) \o
    (IF ~OutputRemoved(cell) /\ cell.outputs # <<>>
     THEN <<"cell_code_output">> ELSE <<>>)

\* C16 as stated: a cell that is not skipped gets exactly one cell
\* container, with a cell_input container iff the remove-input flag is
\* false and after it a cell_output container iff the remove-output flag is
\* false and the cell has outputs; so every cell container has a child.
C16_AsStated ==
    \A i \in 1 .. rendered :
        NotSkipped(notebook[i]) =>
            /\ Cardinality(CellContainers(doctree, i)) = 1
            /\ \A n \in CellContainers(doctree, i) :
                   /\ ChildElements(doctree, n) = ExpectedElements(notebook[i])
                   /\ doctree[n].children # <<>>

\* C16, amended: the same structure, but the cell container is empty when
\* the remove-input flag is true, the remove-output flag false and the cell
\* has no outputs, and holds a child in every other case.
C16_Amended ==
    \A i \in 1 .. rendered :
        /\ NotSkipped(notebook[i]) =>
               /\ Cardinality(CellContainers(doctree, i)) = 1
               /\ \A n \in CellContainers(doctree, i) :
                      /\ doctree[n].parent = 1
                      /\ ChildElements(doctree, n) = ExpectedElements(notebook[i])
                      /\ doctree[n].children = <<>> <=>
                             /\ InputRemoved(notebook[i])
                             /\ ~OutputRemoved(notebook[i])
                             /\ notebook[i].outputs = <<>>
        /\ ~NotSkipped(notebook[i]) => CellContainers(doctree, i) = {}

\* a cell without outputs whose input a tag removes got a cell container
\* without children, next to a cell that got both containers
C16_Witness ==
    /\ \E i \in 1 .. rendered :
           /\ notebook[i].outputs = <<>>
           /\ notebook[i].metadata.tags = {"remove_input"}
           /\ \E n \in CellContainers(doctree, i) : doctree[n].children = <<>>
    /\ \E i \in 1 .. rendered :
           \E n \in CellContainers(doctree, i) :
               ChildElements(doctree, n) = <<"cell_code_source", "cell_code_output">>

\* the documents an environment has an entry for
KeysOf(s, env) == {d \in Docs : s.meta[env][d] # 0}

\* the entries of an environment are the same in two stores
SameEntries(s, t, env) ==
    /\ KeysOf(s, env) = KeysOf(t, env)
    /\ \A d \in Docs : DocEntry(s, env, d) = DocEntry(t, env, d)

============================================================================
